---- MODULE Spec2Model ----
(***************************************************************************)
(* A model of bot.py, the task reminder bot: one invocation of main()      *)
(* loads state.json and tasks.json, fetches the provider's updates past    *)
(* the watermark, interprets each command, applies the deferred resets,    *)
(* saves state.json and sends at most one listing, status or reminder.     *)
(* Texts are TLA+ strings handled with the code's own string operations    *)
(* (strip, lower, split, startswith); times of day are <<hour, minute,      *)
(* second, microsecond>> compared as datetime.time compares them; dates    *)
(* are day ordinals of the year 2024 formatted by isoformat.               *)
(***************************************************************************)
EXTENDS Integers, Sequences, FiniteSets, TLC

\* ------------------------------------------------------------------ bounds
\* Updates the provider ever receives (update ids run 1..MaxUpdates).
MaxUpdates == 3
\* Updates the provider holds unconfirmed at one time.
MaxBatch == 2
\* Calendar days the clock may advance past FirstDay.
MaxDays == 1

\* ------------------------------------------------------- program constants
CHAT_ID == "42"
START_TIME == <<19, 0, 0, 0>>
CUTOFF_TIME == <<2, 0, 0, 0>>
KeyMaxLen == 32
LabelMaxLen == 80

\* Python's None, for cfg["default"]; no key can equal it (keys are lowercased).
None == "<None>"

\* ------------------------------------------------------- string operations
\* str.startswith
StartsWith(s, p) == Len(s) >= Len(p) /\ SubSeq(s, 1, Len(p)) = p

LowerChar(c) ==
    CASE c = "A" -> "a" [] c = "B" -> "b" [] c = "C" -> "c" [] c = "D" -> "d"
      [] c = "E" -> "e" [] c = "F" -> "f" [] c = "G" -> "g" [] c = "H" -> "h"
      [] c = "I" -> "i" [] c = "J" -> "j" [] c = "K" -> "k" [] c = "L" -> "l"
      [] c = "M" -> "m" [] c = "N" -> "n" [] c = "O" -> "o" [] c = "P" -> "p"
      [] c = "Q" -> "q" [] c = "R" -> "r" [] c = "S" -> "s" [] c = "T" -> "t"
      [] c = "U" -> "u" [] c = "V" -> "v" [] c = "W" -> "w" [] c = "X" -> "x"
      [] c = "Y" -> "y" [] c = "Z" -> "z" [] OTHER -> c

\* str.lower
RECURSIVE Lower(_)
Lower(s) ==
    IF s = "" THEN ""
    ELSE LowerChar(SubSeq(s, 1, 1)) \o Lower(SubSeq(s, 2, Len(s)))

IsSpace(c) == c = " "

RECURSIVE LStrip(_)
LStrip(s) ==
    IF s # "" /\ IsSpace(SubSeq(s, 1, 1)) THEN LStrip(SubSeq(s, 2, Len(s))) ELSE s

RECURSIVE RStrip(_)
RStrip(s) ==
    IF s # "" /\ IsSpace(SubSeq(s, Len(s), Len(s)))
    THEN RStrip(SubSeq(s, 1, Len(s) - 1))
    ELSE s

\* str.strip
Strip(s) == LStrip(RStrip(s))

\* Length of the leading run of non-space characters of s.
RECURSIVE WordLen(_)
WordLen(s) ==
    IF s = "" \/ IsSpace(SubSeq(s, 1, 1)) THEN 0
    ELSE 1 + WordLen(SubSeq(s, 2, Len(s)))

\* str.split(maxsplit=n): split on runs of whitespace, at most n splits; the
\* remainder after the last split keeps its inner and trailing whitespace.
RECURSIVE Split(_, _)
Split(s, n) ==
    LET t == LStrip(s) IN
    IF t = "" THEN <<>>
    ELSE IF n = 0 THEN <<t>>
    ELSE LET w == WordLen(t) IN
         <<SubSeq(t, 1, w)>> \o Split(SubSeq(t, w + 1, Len(t)), n - 1)

KeyChars ==
    {"a", "b", "c", "d", "e", "f", "g", "h", "i", "j", "k", "l", "m", "n", "o",
     "p", "q", "r", "s", "t", "u", "v", "w", "x", "y", "z", "0", "1", "2", "3",
     "4", "5", "6", "7", "8", "9", "_", "-"}

\* KEY_RE.match(key): ^[a-z0-9_-]{1,32}$
valid_key(key) ==
    /\ Len(key) >= 1
    /\ Len(key) <= KeyMaxLen
    /\ \A i \in 1..Len(key) : SubSeq(key, i, i) \in KeyChars

normalize_label(label) ==
    LET l == Strip(label) IN
    IF Len(l) > LabelMaxLen THEN SubSeq(l, 1, LabelMaxLen) ELSE l

\* ------------------------------------------------------------ clock, dates
\* A datetime is [date |-> day ordinal of 2024, time |-> <<h, m, s, us>>].
\* datetime.time comparison: lexicographic on (hour, minute, second,
\* microsecond).
TimeLE(a, b) ==
    \/ a[1] < b[1]
    \/ a[1] = b[1] /\ a[2] < b[2]
    \/ a[1] = b[1] /\ a[2] = b[2] /\ a[3] < b[3]
    \/ a[1] = b[1] /\ a[2] = b[2] /\ a[3] = b[3] /\ a[4] <= b[4]

TimeGE(a, b) == TimeLE(b, a)

MonthDays == <<31, 29, 31, 30, 31, 30, 31, 31, 30, 31, 30, 31>>

\* The <<month, day>> of day ordinal ord counted from the first of month m.
RECURSIVE MonthDay(_, _)
MonthDay(ord, m) ==
    IF ord <= MonthDays[m] THEN <<m, ord>> ELSE MonthDay(ord - MonthDays[m], m + 1)

Pad2(n) == IF n < 10 THEN "0" \o ToString(n) ELSE ToString(n)

\* date.isoformat()
isoformat(ord) ==
    LET md == MonthDay(ord, 1) IN "2024-" \o Pad2(md[1]) \o "-" \o Pad2(md[2])

\* Mutant: the target date is the calendar date, whatever the time.
compute_target_date_calendar(now) == isoformat(now.date)

\* Mutant: the cutoff itself already belongs to the new day (< for <=).
compute_target_date_exclusive(now) ==
    IF TimeLE(now.time, CUTOFF_TIME) /\ now.time # CUTOFF_TIME
    THEN isoformat(now.date - 1)
    ELSE isoformat(now.date)

compute_target_date(now) ==
    IF TimeLE(now.time, CUTOFF_TIME)
    THEN isoformat(now.date - 1)
    ELSE isoformat(now.date)

in_reminder_window(now) ==
    TimeGE(now.time, START_TIME) \/ TimeLE(now.time, CUTOFF_TIME)

\* ------------------------------------------------------ dicts and registry
\* A dict of strings (done_map) is a function whose domain is its key set.
DictGet(d, k) == IF k \in DOMAIN d THEN d[k] ELSE None
DictSet(d, k, v) == [j \in DOMAIN d \cup {k} |-> IF j = k THEN v ELSE d[j]]
DictPop(d, k) == [j \in DOMAIN d \ {k} |-> d[j]]
EmptyDict == [j \in {} |-> None]

\* bool(x) is false of None and of the empty string.
Falsy(v) == v = None \/ v = ""

SeqKeys(ts) == {ts[i].key : i \in 1..Len(ts)}

\* A dict comprehension over a list of tasks, as an ordered list of
\* [key, label]: a repeated key keeps its first position and takes the last
\* label.
RECURSIVE DictOf(_, _)
DictOf(ts, acc) ==
    IF ts = <<>> THEN acc
    ELSE LET t == Head(ts) IN
         IF t.key \in SeqKeys(acc)
         THEN DictOf(Tail(ts),
                     [i \in 1..Len(acc) |->
                        IF acc[i].key = t.key THEN t ELSE acc[i]])
         ELSE DictOf(Tail(ts), Append(acc, t))

task_map(cfg) == DictOf(cfg.tasks, <<>>)

\* Mutant: a task counts as done once the ledger holds any date for it.
get_pending_never_done(cfg, done_map, target_date) ==
    SelectSeq(task_map(cfg), LAMBDA t : DictGet(done_map, t.key) = None)

get_pending(cfg, done_map, target_date) ==
    SelectSeq(task_map(cfg), LAMBDA t : DictGet(done_map, t.key) # target_date)

RECURSIVE JoinLines(_, _)
JoinLines(ls, sep) ==
    IF ls = <<>> THEN ""
    ELSE IF Len(ls) = 1 THEN ls[1]
    ELSE ls[1] \o sep \o JoinLines(Tail(ls), sep)

format_tasks(cfg) ==
    LET line(t) == "- " \o t.key \o ": " \o t.label \o
                   (IF t.key = cfg.default THEN " (default)" ELSE "")
        lines == [i \in 1..Len(cfg.tasks) |-> line(cfg.tasks[i])]
    IN IF lines # <<>> THEN JoinLines(lines, "\n") ELSE "(no tasks yet)"

\* The registry operations return the cfg they leave and the reply.

\* Mutant: no test for a key that exists already.
add_task_no_duplicate_check(cfg, key0, label0) ==
    LET key == Lower(Strip(key0))
        label == normalize_label(label0)
    IN IF ~valid_key(key)
       THEN [cfg |-> cfg,
             msg |-> "Invalid key. Use 1-32 chars: lowercase letters, numbers, _ or -."]
       ELSE IF label = ""
       THEN [cfg |-> cfg, msg |-> "Label cannot be empty."]
       ELSE [cfg |-> [tasks |-> Append(cfg.tasks, [key |-> key, label |-> label]),
                      default |-> IF Falsy(cfg.default) THEN key ELSE cfg.default],
             msg |-> "Added task: " \o key \o " = " \o label]

\* Mutant: the test for an existing key looks up the key as typed, not the
\* lowercased key that is stored.
add_task_case_sensitive(cfg, key0, label0) ==
    LET key == Lower(Strip(key0))
        label == normalize_label(label0)
    IN IF ~valid_key(key)
       THEN [cfg |-> cfg,
             msg |-> "Invalid key. Use 1-32 chars: lowercase letters, numbers, _ or -."]
       ELSE IF label = ""
       THEN [cfg |-> cfg, msg |-> "Label cannot be empty."]
       ELSE IF Strip(key0) \in SeqKeys(task_map(cfg))
       THEN [cfg |-> cfg,
             msg |-> "Task '" \o key \o "' already exists. Use /label " \o key
                     \o " <new label> to rename."]
       ELSE [cfg |-> [tasks |-> Append(cfg.tasks, [key |-> key, label |-> label]),
                      default |-> IF Falsy(cfg.default) THEN key ELSE cfg.default],
             msg |-> "Added task: " \o key \o " = " \o label]

add_task(cfg, key0, label0) ==
    LET key == Lower(Strip(key0))
        label == normalize_label(label0)
    IN IF ~valid_key(key)
       THEN [cfg |-> cfg,
             msg |-> "Invalid key. Use 1-32 chars: lowercase letters, numbers, _ or -."]
       ELSE IF label = ""
       THEN [cfg |-> cfg, msg |-> "Label cannot be empty."]
       ELSE IF key \in SeqKeys(task_map(cfg))
       THEN [cfg |-> cfg,
             msg |-> "Task '" \o key \o "' already exists. Use /label " \o key
                     \o " <new label> to rename."]
       ELSE [cfg |-> [tasks |-> Append(cfg.tasks, [key |-> key, label |-> label]),
                      default |-> IF Falsy(cfg.default) THEN key ELSE cfg.default],
             msg |-> "Added task: " \o key \o " = " \o label]

\* Mutant: removing the default task leaves cfg["default"] naming it.
remove_task_keeps_default(cfg, done_map, key0) ==
    LET key == Lower(Strip(key0))
        tasks == SelectSeq(cfg.tasks, LAMBDA t : t.key # key)
    IN IF Len(cfg.tasks) = Len(tasks)
       THEN [cfg |-> [cfg EXCEPT !.tasks = tasks], done_map |-> done_map,
             msg |-> "No task named '" \o key \o "'."]
       ELSE [cfg |-> [tasks |-> tasks, default |-> cfg.default],
             done_map |-> DictPop(done_map, key),
             msg |-> "Removed task '" \o key \o "'."]

\* Mutant: the default passes to the last remaining task (tasks[-1]).
remove_task_last_remaining(cfg, done_map, key0) ==
    LET key == Lower(Strip(key0))
        tasks == SelectSeq(cfg.tasks, LAMBDA t : t.key # key)
    IN IF Len(cfg.tasks) = Len(tasks)
       THEN [cfg |-> [cfg EXCEPT !.tasks = tasks], done_map |-> done_map,
             msg |-> "No task named '" \o key \o "'."]
       ELSE [cfg |-> [tasks |-> tasks,
                      default |-> IF cfg.default = key
                                  THEN IF tasks # <<>> THEN tasks[Len(tasks)].key ELSE None
                                  ELSE cfg.default],
             done_map |-> DictPop(done_map, key),
             msg |-> "Removed task '" \o key \o "'."]

remove_task(cfg, done_map, key0) ==
    LET key == Lower(Strip(key0))
        tasks == SelectSeq(cfg.tasks, LAMBDA t : t.key # key)
    IN IF Len(cfg.tasks) = Len(tasks)
       THEN [cfg |-> [cfg EXCEPT !.tasks = tasks], done_map |-> done_map,
             msg |-> "No task named '" \o key \o "'."]
       ELSE [cfg |-> [tasks |-> tasks,
                      default |-> IF cfg.default = key
                                  THEN IF tasks # <<>> THEN tasks[1].key ELSE None
                                  ELSE cfg.default],
             done_map |-> DictPop(done_map, key),
             msg |-> "Removed task '" \o key \o "'."]

set_default(cfg, key0) ==
    LET key == Lower(Strip(key0))
    IN IF key \notin SeqKeys(task_map(cfg))
       THEN [cfg |-> cfg, msg |-> "No task named '" \o key \o "'. Use /tasks."]
       ELSE [cfg |-> [cfg EXCEPT !.default = key],
             msg |-> "Default task set to '" \o key \o "'."]

\* The index of the first task with this key, 0 when there is none.
FirstIndex(ts, key) ==
    IF key \in SeqKeys(ts)
    THEN CHOOSE i \in 1..Len(ts) :
            ts[i].key = key /\ \A j \in 1..(i - 1) : ts[j].key # key
    ELSE 0

set_label(cfg, key0, label0) ==
    LET key == Lower(Strip(key0))
        label == normalize_label(label0)
        i == FirstIndex(cfg.tasks, key)
    IN IF label = ""
       THEN [cfg |-> cfg, msg |-> "Label cannot be empty."]
       ELSE IF i = 0
       THEN [cfg |-> cfg, msg |-> "No task named '" \o key \o "'. Use /tasks."]
       ELSE [cfg |-> [cfg EXCEPT !.tasks[i].label = label],
             msg |-> "Updated label: " \o key \o " = " \o label]

help_text(cfg) ==
    "Commands:\n"
    \o "- /tasks (show tasks)\n"
    \o "- /add <key> <label>   (example: /add gym Gym)\n"
    \o "- /remove <key>\n"
    \o "- /label <key> <label> (rename label)\n"
    \o "- /default <key>\n"
    \o "- /done <key>          (example: /done gym)\n"
    \o "- /status\n"
    \o "- /reset               (clears completion for the target day)\n"
    \o "- /resetall            (clears done + update offset)\n\n"
    \o "Current tasks:\n"
    \o format_tasks(cfg)

\* ------------------------------------------------- the loop body of main()
Max(a, b) == IF a >= b THEN a ELSE b

\* dict.get on an update or a message, which may lack the field.
Get(r, f, default) == IF f \in DOMAIN r THEN r[f] ELSE default

\* msg = upd.get("message") or upd.get("edited_message"); "if not msg"
has_message(upd) == "message" \in DOMAIN upd \/ "edited_message" \in DOMAIN upd
message_of(upd) ==
    IF "message" \in DOMAIN upd THEN upd.message ELSE upd.edited_message

\* Mutant: the watermark moves only past the updates the loop acts on, as if
\* the max stood after the two "continue" filters.
advance_watermark_actionable(last_update_id, upd) ==
    IF has_message(upd) /\ Get(message_of(upd), "chat_id", None) = CHAT_ID
    THEN Max(last_update_id, Get(upd, "update_id", last_update_id))
    ELSE last_update_id

\* uid = upd.get("update_id", last_update_id); max(last_update_id, uid)
advance_watermark(last_update_id, upd) ==
    Max(last_update_id, Get(upd, "update_id", last_update_id))

\* The outcome of one command: the locals it leaves, the reply it sends (None
\* when it sends nothing) and whether it called save_tasks_config before the
\* reply.  s holds cfg, done_map, last_update_id and the flags.
Quiet(s) == [s |-> s, reply |-> None, save_cfg |-> FALSE]
Reply(s, text) ==
    [s |-> [s EXCEPT !.responded = TRUE], reply |-> text, save_cfg |-> FALSE]
ReplySaved(s, cfg, text) ==
    [s |-> [s EXCEPT !.responded = TRUE, !.cfg = cfg], reply |-> text,
     save_cfg |-> TRUE]

cmd_add(s, text) ==
    LET parts == Split(text, 2) IN
    IF Len(parts) < 3
    THEN Reply(s, "Usage: /add <key> <label>  (example: /add gym Gym)")
    ELSE LET r == add_task(s.cfg, parts[2], parts[3]) IN ReplySaved(s, r.cfg, r.msg)

cmd_remove(s, lower) ==
    LET parts == Split(lower, 1) IN
    IF Len(parts) < 2
    THEN Reply(s, "Usage: /remove <key>")
    ELSE LET r == remove_task(s.cfg, s.done_map, parts[2])
         IN ReplySaved([s EXCEPT !.done_map = r.done_map], r.cfg, r.msg)

cmd_label(s, text) ==
    LET parts == Split(text, 2) IN
    IF Len(parts) < 3
    THEN Reply(s, "Usage: /label <key> <new label>")
    ELSE LET r == set_label(s.cfg, parts[2], parts[3]) IN ReplySaved(s, r.cfg, r.msg)

cmd_default(s, lower) ==
    LET parts == Split(lower, 1) IN
    IF Len(parts) < 2
    THEN Reply(s, "Usage: /default <key>")
    ELSE LET r == set_default(s.cfg, parts[2]) IN ReplySaved(s, r.cfg, r.msg)

\* Mutant: /done without a default goes on to the lookup of the empty key.
cmd_done_no_default_test(s, lower, target_date) ==
    LET parts == Split(lower, 1)
        key == IF Len(parts) > 1 THEN Lower(Strip(parts[2]))
               ELSE IF Falsy(s.cfg.default) THEN "" ELSE s.cfg.default
    IN IF key \notin SeqKeys(task_map(s.cfg))
       THEN Reply(s, "Unknown task '" \o key \o "'. Use /tasks.")
       ELSE Reply([s EXCEPT !.done_map = DictSet(s.done_map, key, target_date)],
                  "Marked done: " \o key \o " for " \o target_date \o ".")

cmd_done(s, lower, target_date) ==
    LET parts == Split(lower, 1)
        key == IF Len(parts) > 1 THEN Lower(Strip(parts[2]))
               ELSE IF Falsy(s.cfg.default) THEN "" ELSE s.cfg.default
    IN IF key = ""
       THEN Reply(s, "No default task set. Use /add to create a task first.")
       ELSE IF key \notin SeqKeys(task_map(s.cfg))
       THEN Reply(s, "Unknown task '" \o key \o "'. Use /tasks.")
       ELSE Reply([s EXCEPT !.done_map = DictSet(s.done_map, key, target_date)],
                  "Marked done: " \o key \o " for " \o target_date \o ".")

\* Mutant: "/reset" is tested before "/resetall", whose prefix it is.
command_of_reset_first(lower) ==
    IF StartsWith(lower, "/tasks") \/ StartsWith(lower, "/help") THEN "tasks"
    ELSE IF StartsWith(lower, "/status") THEN "status"
    ELSE IF StartsWith(lower, "/reset") THEN "reset"
    ELSE IF StartsWith(lower, "/resetall") THEN "resetall"
    ELSE IF StartsWith(lower, "/add") THEN "add"
    ELSE IF StartsWith(lower, "/remove") THEN "remove"
    ELSE IF StartsWith(lower, "/label") THEN "label"
    ELSE IF StartsWith(lower, "/default") THEN "default"
    ELSE IF StartsWith(lower, "/done") THEN "done"
    ELSE "none"

\* The chain of lower.startswith tests, in the order of the code.
command_of(lower) ==
    IF StartsWith(lower, "/tasks") \/ StartsWith(lower, "/help") THEN "tasks"
    ELSE IF StartsWith(lower, "/status") THEN "status"
    ELSE IF StartsWith(lower, "/resetall") THEN "resetall"
    ELSE IF StartsWith(lower, "/reset") THEN "reset"
    ELSE IF StartsWith(lower, "/add") THEN "add"
    ELSE IF StartsWith(lower, "/remove") THEN "remove"
    ELSE IF StartsWith(lower, "/label") THEN "label"
    ELSE IF StartsWith(lower, "/default") THEN "default"
    ELSE IF StartsWith(lower, "/done") THEN "done"
    ELSE "none"

\* The body of the branch the text selects.
dispatch(s, text0, target_date) ==
    LET text == Strip(text0)
        lower == Lower(text)
        c == command_of(lower)
    IN CASE c = "tasks" -> Quiet([s EXCEPT !.tasks_requested = TRUE])
         [] c = "status" -> Quiet([s EXCEPT !.status_requested = TRUE])
         [] c = "resetall" -> Quiet([s EXCEPT !.reset_all = TRUE])
         [] c = "reset" -> Quiet([s EXCEPT !.reset_today = TRUE])
         [] c = "add" -> cmd_add(s, text)
         [] c = "remove" -> cmd_remove(s, lower)
         [] c = "label" -> cmd_label(s, text)
         [] c = "default" -> cmd_default(s, lower)
         [] c = "done" -> cmd_done(s, lower, target_date)
         [] OTHER -> Quiet(s)

\* Mutant: the chat of the message is not compared with CHAT_ID.
process_update_any_chat(s, upd, target_date) ==
    LET s1 == [s EXCEPT !.last_update_id = advance_watermark(s.last_update_id, upd)]
    IN IF ~has_message(upd) THEN Quiet(s1)
       ELSE dispatch(s1, Get(message_of(upd), "text", ""), target_date)

\* One iteration of "for upd in updates".
process_update(s, upd, target_date) ==
    LET s1 == [s EXCEPT !.last_update_id = advance_watermark(s.last_update_id, upd)]
    IN IF ~has_message(upd) THEN Quiet(s1)
       ELSE IF Get(message_of(upd), "chat_id", None) # CHAT_ID THEN Quiet(s1)
       ELSE dispatch(s1, Get(message_of(upd), "text", ""), target_date)

\* ------------------------------------------------------------ environment
FirstDay == 31

TimesOfDay ==
    {<<1, 30, 0, 0>>, <<2, 0, 0, 0>>, <<2, 0, 1, 0>>, <<18, 59, 59, 999999>>,
     <<19, 0, 0, 0>>}

Clocks == [date : FirstDay..(FirstDay + MaxDays), time : TimesOfDay]

ClockLE(a, b) == a.date < b.date \/ (a.date = b.date /\ TimeLE(a.time, b.time))

\* What the configured chat types in Spec: completions, resets and queries,
\* with the registry changes that make a key come and go.
RunTexts ==
    {"/done", "/done gym", "/add gym Gym", "/add task1 Chore", "/remove task1",
     "/reset", "/resetall", "/status", "/tasks", "hello"}

\* What the configured chat types in SpecRegistry: the registry commands over
\* three keys, with a completion and a reset.
RegistryTexts ==
    {"/add gym Gym", "/add read Read", "/add Gym Again", "/remove task1",
     "/remove gym", "/default gym", "/default read", "/label gym Lift",
     "/done", "/done gym", "/reset"}

\* What the configured chat types in SpecErrors: commands the registry
\* refuses, with the /remove that leaves no default and a /done that succeeds
\* while the seed task is there.
ErrorTexts ==
    {"/add bad! X", "/add task1 Dup", "/remove nope", "/label nope X",
     "/default nope", "/done nope", "/done", "/remove task1"}

\* What the configured chat types in SpecProgress.
ProgressTexts == {"/resetall", "/done", "/status", "hello"}

\* What the configured chat types in SpecWindow: completions and an addition,
\* no /reset, /resetall or /remove.
WindowTexts == {"/done", "/done gym", "/add gym Gym", "/status", "hello"}

FromChat(n, T) ==
    {[update_id |-> n, message |-> [chat_id |-> CHAT_ID, text |-> t]] : t \in T}

\* The updates the provider may receive under id n in Spec: a message or an
\* edited message of the configured chat, a message of another chat, a
\* message without text, an update that carries no message.
RunUpdates(n) ==
    FromChat(n, RunTexts)
    \cup {[update_id |-> n, edited_message |-> [chat_id |-> CHAT_ID, text |-> "/done"]],
          [update_id |-> n, message |-> [chat_id |-> "7", text |-> "/resetall"]],
          [update_id |-> n, message |-> [chat_id |-> CHAT_ID]],
          [update_id |-> n]}

\* load_tasks_config() of a missing tasks.json
SeedCfg == [default |-> "task1", tasks |-> <<[key |-> "task1", label |-> "Task 1"]>>]

\* ------------------------------------------------------------------- state
VARIABLES
    state_file,        \* state.json: [last_update_id, done]
    tasks_file,        \* tasks.json (the seed while the file is missing)
    inbox,             \* the provider's unconfirmed updates, oldest first
    next_uid,          \* the id the provider gives the next update
    clock,             \* the wall clock, datetime.now(TZ) if main() reads it
    pc,                \* "idle", "loop", "saved", "done", "aborted"
    loaded,            \* main: state as load_state() returned it
    cfg,               \* main: cfg
    last_update_id,    \* main: last_update_id
    done_map,          \* main: done_map
    target_date,       \* main: target_date
    updates,           \* main: updates, the fetched batch
    pos,               \* main: how many of the updates the loop has taken
    responded,         \* main: responded
    status_requested,  \* main: status_requested
    tasks_requested,   \* main: tasks_requested
    reset_today,       \* main: reset_today
    reset_all,         \* main: reset_all
    sent               \* the texts tg_send_message delivered in this run

files == <<state_file, tasks_file>>
provider == <<inbox, next_uid>>
flags == <<responded, status_requested, tasks_requested, reset_today, reset_all>>
locals == <<loaded, cfg, last_update_id, done_map, target_date, updates, pos, flags>>
vars == <<files, provider, clock, pc, locals, sent>>

\* The locals before main() runs.
NoLoaded == [last_update_id |-> 0, done |-> EmptyDict]

ClearLocals ==
    /\ loaded' = NoLoaded
    /\ cfg' = SeedCfg
    /\ last_update_id' = 0
    /\ done_map' = EmptyDict
    /\ target_date' = ""
    /\ updates' = <<>>
    /\ pos' = 0
    /\ responded' = FALSE
    /\ status_requested' = FALSE
    /\ tasks_requested' = FALSE
    /\ reset_today' = FALSE
    /\ reset_all' = FALSE
    /\ sent' = <<>>

Init ==
    /\ state_file = [last_update_id |-> 0, done |-> EmptyDict]
    /\ tasks_file = SeedCfg
    /\ inbox = <<>>
    /\ next_uid = 1
    /\ clock = [date |-> FirstDay, time |-> <<1, 30, 0, 0>>]
    /\ pc = "idle"
    /\ loaded = NoLoaded
    /\ cfg = SeedCfg
    /\ last_update_id = 0
    /\ done_map = EmptyDict
    /\ target_date = ""
    /\ updates = <<>>
    /\ pos = 0
    /\ responded = FALSE
    /\ status_requested = FALSE
    /\ tasks_requested = FALSE
    /\ reset_today = FALSE
    /\ reset_all = FALSE
    /\ sent = <<>>

\* ----------------------------------------------------------------- actions
\* The provider receives an update while no run is in progress (one that
\* arrives during a run is seen by the next fetch, as if it came after).
Receive(U) ==
    /\ pc = "idle"
    /\ next_uid <= MaxUpdates
    /\ Len(inbox) < MaxBatch
    /\ \E u \in U : inbox' = Append(inbox, u)
    /\ next_uid' = next_uid + 1
    /\ UNCHANGED <<files, clock, pc, locals, sent>>

provider_receive == Receive(RunUpdates(next_uid))

registry_receive == Receive(FromChat(next_uid, RegistryTexts))

errors_receive == Receive(FromChat(next_uid, ErrorTexts))

progress_receive == Receive(FromChat(next_uid, ProgressTexts))

window_receive == Receive(FromChat(next_uid, WindowTexts))

\* getUpdates(offset): the provider forgets the updates below the offset and
\* returns the others.
tg_get_updates(box, offset) ==
    SelectSeq(box, LAMBDA u : u.update_id >= offset)

\* main() up to the loop: load both files, read the clock, fetch.
LoadAndRead(t) ==
    /\ pc = "idle"
    /\ ClockLE(clock, t)
    /\ clock' = t
    /\ loaded' = state_file
    /\ cfg' = tasks_file
    /\ last_update_id' = state_file.last_update_id
    /\ done_map' = state_file.done
    /\ target_date' = compute_target_date(t)
    /\ UNCHANGED <<files, next_uid, pos, flags, sent>>

Start(t) ==
    /\ LoadAndRead(t)
    /\ inbox' = tg_get_updates(inbox, state_file.last_update_id + 1)
    /\ updates' = inbox'
    /\ pc' = "loop"

main_start == \E t \in Clocks : Start(t)

\* A run that starts at the time of the last reading.
main_start_now == Start(clock)

\* tg_get_updates raises: main() ends before the loop.  The time that passed
\* before the failing fetch passes before the next run instead.
main_fetch_fails ==
    /\ LoadAndRead(clock)
    /\ pc' = "aborted"
    /\ UNCHANGED <<inbox, updates>>

Locals ==
    [cfg |-> cfg, done_map |-> done_map, last_update_id |-> last_update_id,
     responded |-> responded, status_requested |-> status_requested,
     tasks_requested |-> tasks_requested, reset_today |-> reset_today,
     reset_all |-> reset_all]

SetLocals(s) ==
    /\ cfg' = s.cfg
    /\ done_map' = s.done_map
    /\ last_update_id' = s.last_update_id
    /\ responded' = s.responded
    /\ status_requested' = s.status_requested
    /\ tasks_requested' = s.tasks_requested
    /\ reset_today' = s.reset_today
    /\ reset_all' = s.reset_all

\* One iteration of the loop, its reply (if any) delivered.
loop_body ==
    /\ pc = "loop"
    /\ pos < Len(updates)
    /\ LET r == process_update(Locals, updates[pos + 1], target_date) IN
        /\ SetLocals(r.s)
        /\ tasks_file' = IF r.save_cfg THEN r.s.cfg ELSE tasks_file
        /\ sent' = IF r.reply # None THEN Append(sent, r.reply) ELSE sent
    /\ pos' = pos + 1
    /\ UNCHANGED <<state_file, provider, clock, pc, loaded, target_date, updates>>

\* Mutant: state.json is written with each command, before the reply is sent.
loop_body_send_fails_state_saved ==
    /\ pc = "loop"
    /\ pos < Len(updates)
    /\ LET r == process_update(Locals, updates[pos + 1], target_date) IN
        /\ r.reply # None
        /\ SetLocals([r.s EXCEPT !.responded = responded])
        /\ tasks_file' = IF r.save_cfg THEN r.s.cfg ELSE tasks_file
        /\ state_file' = [last_update_id |-> r.s.last_update_id, done |-> r.s.done_map]
    /\ pc' = "aborted"
    /\ UNCHANGED <<provider, clock, loaded, target_date, updates, pos, sent>>

\* One iteration of the loop whose tg_send_message raises: tasks.json was
\* already written, state.json is not, main() ends.
loop_body_send_fails ==
    /\ pc = "loop"
    /\ pos < Len(updates)
    /\ LET r == process_update(Locals, updates[pos + 1], target_date) IN
        /\ r.reply # None
        /\ SetLocals([r.s EXCEPT !.responded = responded])
        /\ tasks_file' = IF r.save_cfg THEN r.s.cfg ELSE tasks_file
    /\ pc' = "aborted"
    /\ UNCHANGED <<state_file, provider, clock, loaded, target_date, updates, pos, sent>>

\* Mutant: /reset keeps the entries of the target date and drops the others.
reset_done_map_inverted(dm, all, today, date) ==
    IF all THEN EmptyDict
    ELSE IF today THEN [k \in {j \in DOMAIN dm : dm[j] = date} |-> dm[k]]
    ELSE dm

\* done_map after "Apply resets".
reset_done_map(dm, all, today, date) ==
    IF all THEN EmptyDict
    ELSE IF today THEN [k \in {j \in DOMAIN dm : dm[j] # date} |-> dm[k]]
    ELSE dm

\* Mutant: /reset clears the offset as /resetall does.
reset_last_update_id_any(luid, all, today) == IF all \/ today THEN 0 ELSE luid

\* last_update_id after "Apply resets".
reset_last_update_id(luid, all, today) == IF all THEN 0 ELSE luid

reset_reply(all, today, date) ==
    IF all THEN "Reset all memory (done + update offset)."
    ELSE IF today THEN "Reset completion for " \o date \o "."
    ELSE None

\* After the loop: apply the resets, send their reply, save state.json.
apply_resets_and_save ==
    /\ pc = "loop"
    /\ pos = Len(updates)
    /\ done_map' = reset_done_map(done_map, reset_all, reset_today, target_date)
    /\ last_update_id' = reset_last_update_id(last_update_id, reset_all, reset_today)
    /\ LET reply == reset_reply(reset_all, reset_today, target_date) IN
        /\ sent' = IF reply # None THEN Append(sent, reply) ELSE sent
        /\ responded' = (responded \/ reply # None)
    /\ state_file' = [last_update_id |-> last_update_id', done |-> done_map']
    /\ pc' = "saved"
    /\ UNCHANGED <<tasks_file, provider, clock, loaded, cfg, target_date, updates, pos,
                   status_requested, tasks_requested, reset_today, reset_all>>

\* The reset reply raises: main() ends before save_state.
reset_send_fails ==
    /\ pc = "loop"
    /\ pos = Len(updates)
    /\ reset_all \/ reset_today
    /\ done_map' = reset_done_map(done_map, reset_all, reset_today, target_date)
    /\ last_update_id' = reset_last_update_id(last_update_id, reset_all, reset_today)
    /\ pc' = "aborted"
    /\ UNCHANGED <<files, provider, clock, loaded, cfg, target_date, updates, pos, flags, sent>>

status_text(pending, date) ==
    IF pending = <<>> THEN "Status: ALL DONE for " \o date \o "."
    ELSE "Status for " \o date \o ":\nPending: "
         \o JoinLines([i \in 1..Len(pending) |-> pending[i].label], ", ")
         \o "\nMark done: /done <key>  (see keys with /tasks)"

reminder_text(pending, date) ==
    "Reminder for " \o date \o ":\nPending: "
    \o JoinLines([i \in 1..Len(pending) |-> pending[i].label], ", ")
    \o "\n\nUse /done <key> (see keys with /tasks)"

\* Mutant: the reminder is considered although a command was answered.
final_text_ignores_responded(now) ==
    IF tasks_requested THEN help_text(cfg)
    ELSE IF status_requested
    THEN status_text(get_pending(cfg, done_map, target_date), target_date)
    ELSE IF ~in_reminder_window(now) THEN None
    ELSE IF get_pending(cfg, done_map, compute_target_date(now)) = <<>> THEN None
    ELSE reminder_text(get_pending(cfg, done_map, compute_target_date(now)),
                       compute_target_date(now))

\* Mutant: the status is answered before the listing is considered.
final_text_status_first(now) ==
    IF status_requested
    THEN status_text(get_pending(cfg, done_map, target_date), target_date)
    ELSE IF tasks_requested THEN help_text(cfg)
    ELSE IF responded THEN None
    ELSE IF ~in_reminder_window(now) THEN None
    ELSE IF get_pending(cfg, done_map, compute_target_date(now)) = <<>> THEN None
    ELSE reminder_text(get_pending(cfg, done_map, compute_target_date(now)),
                       compute_target_date(now))

\* The text main() sends after save_state, None when it returns silently;
\* now is the second reading of the clock.
final_text(now) ==
    IF tasks_requested THEN help_text(cfg)
    ELSE IF status_requested
    THEN status_text(get_pending(cfg, done_map, target_date), target_date)
    ELSE IF responded THEN None
    ELSE IF ~in_reminder_window(now) THEN None
    ELSE IF get_pending(cfg, done_map, compute_target_date(now)) = <<>> THEN None
    ELSE reminder_text(get_pending(cfg, done_map, compute_target_date(now)),
                       compute_target_date(now))

\* The clock is read again only on the way to the reminder.
ReadsClockAgain == ~tasks_requested /\ ~status_requested /\ ~responded

\* After save_state: the listing, the status, the reminder or nothing.  Time
\* has passed since the run started, whether or not main() reads the clock.
Respond(t) ==
    /\ pc = "saved"
    /\ ClockLE(clock, t)
    /\ clock' = t
    /\ target_date' = IF ReadsClockAgain THEN compute_target_date(t) ELSE target_date
    /\ sent' = IF final_text(t) # None THEN Append(sent, final_text(t)) ELSE sent
    /\ pc' = "done"
    /\ UNCHANGED <<files, provider, loaded, cfg, last_update_id, done_map, updates, pos, flags>>

respond == \E t \in Clocks : Respond(t)

respond_now == Respond(clock)

\* The final tg_send_message raises, state.json being saved already.
RespondFails(t) ==
    /\ pc = "saved"
    /\ ClockLE(clock, t)
    /\ clock' = t
    /\ target_date' = IF ReadsClockAgain THEN compute_target_date(t) ELSE target_date
    /\ final_text(t) # None
    /\ pc' = "aborted"
    /\ UNCHANGED <<files, provider, loaded, cfg, last_update_id, done_map, updates, pos, flags, sent>>

respond_send_fails == \E t \in Clocks : RespondFails(t)

respond_send_fails_now == RespondFails(clock)

\* The process ends; the next invocation starts from the files alone.
exit ==
    /\ pc \in {"done", "aborted"}
    /\ pc' = "idle"
    /\ ClearLocals
    /\ UNCHANGED <<files, provider, clock>>

Next ==
    \/ provider_receive
    \/ main_start
    \/ main_fetch_fails
    \/ loop_body
    \/ loop_body_send_fails
    \/ apply_resets_and_save
    \/ reset_send_fails
    \/ respond
    \/ respond_send_fails
    \/ exit

Spec == Init /\ [][Next]_vars

\* The same program with the registry-heavy inputs and a clock that stands
\* still.
NextRegistry ==
    \/ registry_receive
    \/ main_start_now
    \/ main_fetch_fails
    \/ loop_body
    \/ loop_body_send_fails
    \/ apply_resets_and_save
    \/ reset_send_fails
    \/ respond_now
    \/ respond_send_fails_now
    \/ exit

SpecRegistry == Init /\ [][NextRegistry]_vars

\* The same program with the inputs the registry refuses, a clock that stands
\* still and a transport that does not fail.
NextErrors ==
    \/ errors_receive
    \/ main_start_now
    \/ loop_body
    \/ apply_resets_and_save
    \/ respond_now
    \/ exit

SpecErrors == Init /\ [][NextErrors]_vars

\* The same program run again and again by its scheduler, with a transport
\* that does not fail and a clock that stands still: a step of main() that can
\* be taken is taken, and when main() has ended it is started again.
RunStep ==
    \/ main_start_now
    \/ loop_body
    \/ apply_resets_and_save
    \/ respond_now
    \/ exit

NextProgress ==
    \/ progress_receive
    \/ RunStep

\* The control flow of RunStep: every step of main() moves pc or pos in one of
\* these ways, and no other step does.
RunControl ==
    \/ pc = "idle" /\ pc' = "loop" /\ pos' = pos
    \/ pc = "loop" /\ pos < Len(updates) /\ pc' = pc /\ pos' = pos + 1
    \/ pc = "loop" /\ pos = Len(updates) /\ pc' = "saved" /\ pos' = pos
    \/ pc = "saved" /\ pc' = "done" /\ pos' = pos
    \/ pc = "done" /\ pc' = "idle" /\ pos' = 0

\* Fairness: main() does not stop between two of its steps, and the scheduler
\* starts it again when it has ended.
SpecProgress == Init /\ [][NextProgress]_vars /\ WF_<<pc, pos>>(RunControl)

\* The same program over the evening and the night of a window, with inputs
\* that neither reset the ledger nor remove a task.
NextWindow ==
    \/ window_receive
    \/ main_start
    \/ main_fetch_fails
    \/ loop_body
    \/ loop_body_send_fails
    \/ apply_resets_and_save
    \/ respond
    \/ respond_send_fails
    \/ exit

SpecWindow == Init /\ [][NextWindow]_vars

\* The same program started at any of a larger set of times, receiving
\* nothing: each run reads the clock, computes the target date and decides on
\* the reminder for the seed task.
ClockTimes ==
    {<<h, m, s, us>> : h \in 0..23, m \in {0, 59}, s \in {0, 59}, us \in {0, 1, 999999}}

InitClock ==
    /\ state_file = NoLoaded
    /\ tasks_file = SeedCfg
    /\ inbox = <<>>
    /\ next_uid = 1
    /\ clock \in [date : FirstDay..(FirstDay + MaxDays), time : ClockTimes]
    /\ pc = "idle"
    /\ loaded = NoLoaded
    /\ cfg = SeedCfg
    /\ last_update_id = 0
    /\ done_map = EmptyDict
    /\ target_date = ""
    /\ updates = <<>>
    /\ pos = 0
    /\ responded = FALSE
    /\ status_requested = FALSE
    /\ tasks_requested = FALSE
    /\ reset_today = FALSE
    /\ reset_all = FALSE
    /\ sent = <<>>

NextClock ==
    \/ main_start_now
    \/ main_fetch_fails
    \/ apply_resets_and_save
    \/ respond_now
    \/ respond_send_fails_now
    \/ exit

SpecClock == InitClock /\ [][NextClock]_vars

\* ------------------------------------------------------------------ claims
\* What a claim means by "the batch contains the command p from the configured
\* chat": a message or edited message of CHAT_ID whose text begins with p.
Says(u, p) ==
    \E f \in {"message", "edited_message"} \cap DOMAIN u :
        /\ "chat_id" \in DOMAIN u[f]
        /\ u[f].chat_id = CHAT_ID
        /\ "text" \in DOMAIN u[f]
        /\ StartsWith(Lower(Strip(u[f].text)), p)

BatchSays(p) == \E i \in 1..Len(updates) : Says(updates[i], p)

\* /reset without /resetall
SaysReset(u) == Says(u, "/reset") /\ ~Says(u, "/resetall")

Count(ss, P(_)) == Cardinality({i \in 1..Len(ss) : P(ss[i])})

RECURSIVE MaxIdOf(_, _)
MaxIdOf(us, m) ==
    IF us = <<>> THEN m
    ELSE MaxIdOf(Tail(us), IF Head(us).update_id > m THEN Head(us).update_id ELSE m)

\* C1 as stated: the lastUpdateId a completed run saves is at least the
\* lastUpdateId the run loaded.
C1_SavedNotBelowLoaded ==
    pc = "done" => state_file.last_update_id >= loaded.last_update_id

\* C1 amended: the lastUpdateId a completed run saves is at least the
\* lastUpdateId the run loaded, provided the batch holds no /resetall of the
\* configured chat.
C1_SavedNotBelowLoadedUnlessResetAll ==
    (pc = "done" /\ ~BatchSays("/resetall"))
        => state_file.last_update_id >= loaded.last_update_id

\* A later run, started from a positive watermark, moved it up.
C1_Witness ==
    /\ pc = "done"
    /\ ~BatchSays("/resetall")
    /\ loaded.last_update_id > 0
    /\ state_file.last_update_id > loaded.last_update_id

\* C2: after a completed run whose batch holds a /reset of the configured chat
\* and no /resetall, no entry of the saved ledger equals the run's target
\* date, and exactly one reset confirmation was sent.
C2_ResetAppliedAfterLoop ==
    (pc = "done" /\ (\E i \in 1..Len(updates) : SaysReset(updates[i]))
                 /\ ~BatchSays("/resetall"))
        => /\ \A k \in DOMAIN state_file.done : state_file.done[k] # target_date
           /\ Count(sent, LAMBDA m : StartsWith(m, "Reset completion for ")) = 1

\* A /done accepted ahead of a /reset in the same batch, and wiped by it.
C2_Witness ==
    /\ pc = "done"
    /\ Len(updates) = 2
    /\ Says(updates[1], "/done")
    /\ SaysReset(updates[2])
    /\ sent[1] = "Marked done: task1 for " \o target_date \o "."
    /\ state_file.done = EmptyDict

\* C3: after a completed run whose batch holds a /resetall of the configured
\* chat, the saved RunState is lastUpdateId 0 with an empty ledger.
C3_ResetAllClearsRunState ==
    (pc = "done" /\ BatchSays("/resetall"))
        => state_file = [last_update_id |-> 0, done |-> EmptyDict]

\* A /resetall, with a /done in the same batch, on a run that loaded a positive
\* watermark and a ledger entry.
C3_Witness ==
    /\ pc = "done"
    /\ BatchSays("/resetall")
    /\ BatchSays("/done")
    /\ loaded.last_update_id > 0
    /\ loaded.done # EmptyDict
    /\ state_file = [last_update_id |-> 0, done |-> EmptyDict]

\* C4: after a completed run whose batch holds no /resetall of the configured
\* chat, the saved lastUpdateId is the maximum of the loaded one and the ids of
\* all updates of the batch, and the saved RunState is the run's, whether or
\* not a command changed anything.
C4_WatermarkIsMaxOfBatch ==
    (pc = "done" /\ ~BatchSays("/resetall"))
        => /\ state_file.last_update_id = MaxIdOf(updates, loaded.last_update_id)
           /\ state_file = [last_update_id |-> last_update_id, done |-> done_map]

\* A batch of two updates the loop skips (another chat's message, an update
\* without message) moved the watermark by two and left the ledger alone.
C4_Witness ==
    /\ pc = "done"
    /\ Len(updates) = 2
    /\ \A i \in 1..2 : \A p \in {"/", "h"} : ~Says(updates[i], p)
    /\ sent = <<>> \/ StartsWith(sent[1], "Reminder")
    /\ state_file.last_update_id = loaded.last_update_id + 2
    /\ state_file.done = loaded.done

\* The text of an update of the configured chat, "" for any other update.
ChatText(u) ==
    IF Says(u, "")
    THEN u[CHOOSE f \in {"message", "edited_message"} \cap DOMAIN u : TRUE].text
    ELSE ""

\* The lowercased words of the command the loop is about to take.
CurWords == Split(Lower(Strip(ChatText(updates[pos + 1]))), 2)

\* A step of the loop that handles updates[pos + 1], its reply delivered or not.
HandlesUpdate ==
    /\ pc = "loop"
    /\ pos < Len(updates)
    /\ pos' = pos + 1 \/ pc' = "aborted"

Unique(ts) == \A i, j \in 1..Len(ts) : ts[i].key = ts[j].key => i = j

\* C5 as stated: a key that is added again after its removal has no ledger
\* entry.  Only /done writes the ledger and only for a key of the registry, so
\* a key that /add accepts and the ledger holds is a key that was removed: the
\* claim says no step of the loop that adds a key finds that key in the ledger.
C5_RemoveThenAddLeavesNoEntry ==
    [][ (HandlesUpdate /\ Len(CurWords) = 3 /\ CurWords[1] = "/add"
            /\ CurWords[2] \notin SeqKeys(cfg.tasks)
            /\ CurWords[2] \in SeqKeys(cfg'.tasks))
          => CurWords[2] \notin DOMAIN done_map' ]_vars

\* C6: when the loop takes a /done, /add, /remove, /label or /default whose
\* text repeats the update just before it, the second processing changes
\* neither the registry nor the ledger; a repeated /done that was accepted is
\* accepted again with the same reply and leaves the key done for the target
\* date.
C6_RepeatedCommandChangesNothing ==
    [][ (pc = "loop" /\ pos >= 1 /\ pos < Len(updates) /\ pos' = pos + 1
            /\ ChatText(updates[pos]) = ChatText(updates[pos + 1])
            /\ CurWords # <<>>
            /\ CurWords[1] \in {"/done", "/add", "/remove", "/label", "/default"})
          => /\ cfg' = cfg
             /\ done_map' = done_map
             /\ tasks_file' = tasks_file
             /\ (CurWords[1] = "/done" /\ StartsWith(sent[Len(sent)], "Marked done: "))
                  => /\ sent'[Len(sent')] = sent[Len(sent)]
                     /\ \E k \in DOMAIN done_map' :
                          /\ done_map'[k] = target_date
                          /\ sent'[Len(sent')] =
                               "Marked done: " \o k \o " for " \o target_date \o "." ]_vars

\* The second of two equal /add was refused after the first was accepted.
C6_Witness ==
    /\ pc = "loop"
    /\ pos = 2
    /\ ChatText(updates[1]) = "/add gym Gym"
    /\ ChatText(updates[2]) = "/add gym Gym"
    /\ sent[1] = "Added task: gym = Gym"
    /\ Len(cfg.tasks) = 2

DefaultNamesTask(c) == c.default = None \/ c.default \in SeqKeys(c.tasks)

\* C7: the default key of the registry, in memory and in tasks.json, is unset
\* or the key of one of its tasks.
C7_DefaultNamesTask == DefaultNamesTask(cfg) /\ DefaultNamesTask(tasks_file)

\* The seed task, once the default, is gone and the default names another task.
C7_Witness ==
    /\ "task1" \notin SeqKeys(tasks_file.tasks)
    /\ tasks_file.tasks # <<>>
    /\ tasks_file.default = tasks_file.tasks[1].key

\* C8: removing the default task passes the default to the first task that
\* remains, or clears it when none does; removing another task leaves the
\* default; adding a task makes it the default only when there was none.
C8_DefaultOnRemoveAndAdd ==
    [][ (HandlesUpdate /\ Len(CurWords) >= 2)
          => LET k == CurWords[2]
                 rest == SelectSeq(cfg.tasks, LAMBDA t : t.key # k)
             IN /\ (CurWords[1] = "/remove" /\ k \in SeqKeys(cfg.tasks) /\ cfg.default = k)
                     => cfg'.default = IF rest = <<>> THEN None ELSE rest[1].key
                /\ (CurWords[1] = "/remove" /\ k \in SeqKeys(cfg.tasks) /\ cfg.default # k)
                     => cfg'.default = cfg.default
                /\ (CurWords[1] = "/add" /\ Len(CurWords) = 3
                       /\ k \notin SeqKeys(cfg.tasks) /\ k \in SeqKeys(cfg'.tasks))
                     => cfg'.default = IF cfg.default = None THEN k ELSE cfg.default ]_vars

\* The default seed task was removed from a registry of three: the default is
\* the first of the two that remain.
C8_Witness ==
    /\ Len(tasks_file.tasks) = 2
    /\ tasks_file.tasks[1].key = "gym"
    /\ tasks_file.tasks[2].key = "read"
    /\ tasks_file.default = "gym"

\* C9: the keys of the registry, in memory and in tasks.json, are pairwise
\* distinct; an /add of a key the registry holds leaves the sequence as it is
\* and replies that the task exists.
C9_KeysUnique ==
    [][ /\ Unique(cfg.tasks) /\ Unique(cfg'.tasks)
        /\ Unique(tasks_file.tasks) /\ Unique(tasks_file'.tasks)
        /\ (HandlesUpdate /\ Len(CurWords) = 3 /\ CurWords[1] = "/add"
               /\ CurWords[2] \in SeqKeys(cfg.tasks))
             => /\ cfg'.tasks = cfg.tasks
                /\ tasks_file'.tasks = cfg.tasks
                /\ pos' = pos + 1
                     => sent'[Len(sent')] =
                          "Task '" \o CurWords[2] \o "' already exists. Use /label "
                          \o CurWords[2] \o " <new label> to rename." ]_vars

\* "/add Gym Again" was refused because gym exists.
C9_Witness ==
    /\ pc = "loop"
    /\ pos >= 1
    /\ ChatText(updates[pos]) = "/add Gym Again"
    /\ sent # <<>>
    /\ sent[Len(sent)] = "Task 'gym' already exists. Use /label gym <new label> to rename."
    /\ Len(SelectSeq(cfg.tasks, LAMBDA t : t.key = "gym")) = 1

\* Whole seconds since midnight of a time of day.
Secs(t) == t[1] * 3600 + t[2] * 60 + t[3]

\* At or before 02:00:00 sharp (7200 s), at or after 19:00:00 (68400 s).
AtOrBeforeTwo(t) == Secs(t) < 7200 \/ (Secs(t) = 7200 /\ t[4] = 0)
AtOrAfterSeven(t) == Secs(t) >= 68400

\* C10: a time of day is in the window iff it is at or after 19:00:00 or at or
\* before 02:00:00, and targets the previous calendar day iff it is at or
\* before 02:00:00; a run uses that date, and reminds of the pending seed task
\* exactly when in the window.  02:00:00 is in and targets yesterday, 02:00:01
\* is out and targets today, 19:00:00 is in and targets today.
C10_WindowBoundaries ==
    LET inside == AtOrAfterSeven(clock.time) \/ AtOrBeforeTwo(clock.time)
        expected == IF AtOrBeforeTwo(clock.time) THEN isoformat(clock.date - 1)
                    ELSE isoformat(clock.date)
        at(h, m, sec) == [date |-> 32, time |-> <<h, m, sec, 0>>]
    IN /\ in_reminder_window(clock) <=> inside
       /\ compute_target_date(clock) = expected
       /\ pc \in {"loop", "saved", "done"} => target_date = expected
       /\ pc = "done" => (sent # <<>> <=> inside)
       /\ in_reminder_window(at(2, 0, 0))
       /\ compute_target_date(at(2, 0, 0)) = "2024-01-31"
       /\ ~in_reminder_window(at(2, 0, 1))
       /\ compute_target_date(at(2, 0, 1)) = "2024-02-01"
       /\ in_reminder_window(at(19, 0, 0))
       /\ compute_target_date(at(19, 0, 0)) = "2024-02-01"

\* A run at 02:00:00 of February 1 targeted January 31 and sent the reminder.
C10_Witness ==
    /\ pc = "done"
    /\ clock = [date |-> 32, time |-> <<2, 0, 0, 0>>]
    /\ target_date = "2024-01-31"
    /\ sent = <<reminder_text(<<[key |-> "task1", label |-> "Task 1"]>>, "2024-01-31")>>

\* The batch asks for the status and not for the listing.
StatusRun == BatchSays("/status") /\ ~BatchSays("/tasks") /\ ~BatchSays("/help")

\* C11 as stated: the status summary a run sends is computed for the target
\* date of the time of the response, not for the date computed before the
\* loop.
C11_StatusUsesRecomputedDate ==
    (pc = "done" /\ StatusRun)
        => sent[Len(sent)] =
             status_text(get_pending(cfg, done_map, compute_target_date(clock)),
                         compute_target_date(clock))

IsReminder(m) == StartsWith(m, "Reminder for ")
IsStatus(m) == StartsWith(m, "Status")
IsListing(m) == StartsWith(m, "Commands:")

\* A reply to a command: any message but the reminder, the status, the listing.
IsCommandReply(m) == ~IsReminder(m) /\ ~IsStatus(m) /\ ~IsListing(m)

\* C12: a run that has sent a command reply (usage error, /add, /remove,
\* /label, /default, /done, /reset or /resetall reply) sends no reminder.
C12_NoReminderAfterReply ==
    (\E i \in 1..Len(sent) : IsCommandReply(sent[i]))
        => \A i \in 1..Len(sent) : ~IsReminder(sent[i])

\* A run ended inside the window with a task pending, and all it sent is the
\* reply to /add.
C12_Witness ==
    /\ pc = "done"
    /\ sent = <<"Added task: gym = Gym">>
    /\ in_reminder_window(clock)
    /\ get_pending(cfg, done_map, compute_target_date(clock)) # <<>>

\* C13: a completed run has sent at most one of listing, status and reminder.
\* If the batch holds /tasks or /help, that one is the listing of the registry
\* as the run left it; otherwise, if the batch holds /status, it is the status
\* of the registry and the ledger as the run left them, resets applied.
C13_OneFinalMessage ==
    pc = "done"
        => /\ Count(sent, LAMBDA m : ~IsCommandReply(m)) <= 1
           /\ (BatchSays("/tasks") \/ BatchSays("/help"))
                => /\ sent # <<>>
                   /\ sent[Len(sent)] = help_text(tasks_file)
                   /\ Count(sent, LAMBDA m : ~IsCommandReply(m)) = 1
           /\ StatusRun
                => /\ sent # <<>>
                   /\ sent[Len(sent)] =
                        status_text(get_pending(tasks_file, state_file.done, target_date),
                                    target_date)
                   /\ Count(sent, LAMBDA m : ~IsCommandReply(m)) = 1

\* /status came before /tasks in a batch: the run sent the listing and no
\* status.
C13_Witness ==
    /\ pc = "done"
    /\ Len(updates) = 2
    /\ Says(updates[1], "/status")
    /\ Says(updates[2], "/tasks")
    /\ sent = <<help_text(tasks_file)>>

CommandPrefixes ==
    {"/tasks", "/help", "/status", "/reset", "/add", "/remove", "/label",
     "/default", "/done"}

\* An update of another chat, an update without message payload, or a message
\* of the configured chat whose text begins with no command.
IgnoredUpdate(u) == \A p \in CommandPrefixes : ~Says(u, p)

\* C14: the step of the loop that takes an ignored update sends nothing, leaves
\* the registry, the ledger, both files and the request flags as they are, and
\* goes on with the loop; only last_update_id may change, to the maximum of
\* itself and the id of the update.
C14_IgnoredUpdateChangesNothing ==
    [][ (pc = "loop" /\ pos < Len(updates) /\ IgnoredUpdate(updates[pos + 1]))
          => /\ pc' = "loop"
             /\ pos' = pos + 1
             /\ sent' = sent
             /\ cfg' = cfg
             /\ done_map' = done_map
             /\ files' = files
             /\ flags' = flags
             /\ last_update_id' = Max(last_update_id, updates[pos + 1].update_id) ]_vars

\* The loop has gone past a /resetall of another chat and a "hello" of the
\* configured chat: nothing sent, no flag set, the watermark two higher.
C14_Witness ==
    /\ pc = "loop"
    /\ pos = 2
    /\ "message" \in DOMAIN updates[1]
    /\ updates[1].message = [chat_id |-> "7", text |-> "/resetall"]
    /\ Says(updates[2], "hello")
    /\ sent = <<>>
    /\ ~reset_all
    /\ last_update_id = loaded.last_update_id + 2
    /\ done_map = loaded.done

\* The reply the claim expects when the command the loop is about to take
\* fails with a user-input error, None when it does not fail so.
ErrorReply ==
    LET w == CurWords
        keys == SeqKeys(cfg.tasks)
    IN IF w = <<>> THEN None
       ELSE IF w[1] = "/add" /\ Len(w) = 3 /\ ~valid_key(w[2])
       THEN "Invalid key. Use 1-32 chars: lowercase letters, numbers, _ or -."
       ELSE IF w[1] = "/add" /\ Len(w) = 3 /\ w[2] \in keys
       THEN "Task '" \o w[2] \o "' already exists. Use /label " \o w[2]
            \o " <new label> to rename."
       ELSE IF w[1] = "/remove" /\ Len(w) = 2 /\ w[2] \notin keys
       THEN "No task named '" \o w[2] \o "'."
       ELSE IF w[1] = "/label" /\ Len(w) = 3 /\ w[2] \notin keys
       THEN "No task named '" \o w[2] \o "'. Use /tasks."
       ELSE IF w[1] = "/default" /\ Len(w) = 2 /\ w[2] \notin keys
       THEN "No task named '" \o w[2] \o "'. Use /tasks."
       ELSE IF w[1] = "/done" /\ Len(w) = 2 /\ w[2] \notin keys
       THEN "Unknown task '" \o w[2] \o "'. Use /tasks."
       ELSE IF w[1] = "/done" /\ Len(w) = 1 /\ cfg.default = None
       THEN "No default task set. Use /add to create a task first."
       ELSE None

\* C15: the step of the loop that takes a command failing with InvalidKey,
\* DuplicateKey, UnknownKey or NoDefaultTask sends the reply of that error,
\* leaves the registry, the ledger and both files as they are and goes on with
\* the loop; an empty label is refused by add_task and set_label with the
\* registry unchanged; the run saves its RunState all the same.  The replies
\* of NoDefaultTask and UnknownKey differ.
C15_InputErrorsAnswered ==
    [][ /\ (pc = "loop" /\ pos < Len(updates) /\ ErrorReply # None)
            => /\ pc' = "loop"
               /\ pos' = pos + 1
               /\ sent' = Append(sent, ErrorReply)
               /\ cfg' = cfg
               /\ done_map' = done_map
               /\ files' = files
        /\ add_task(cfg, "walk", "  ") = [cfg |-> cfg, msg |-> "Label cannot be empty."]
        /\ set_label(cfg, "task1", "  ") = [cfg |-> cfg, msg |-> "Label cannot be empty."]
        /\ pc' = "done"
            => /\ pos' = Len(updates)
               /\ state_file' = [last_update_id |-> MaxIdOf(updates, loaded.last_update_id),
                                 done |-> done_map] ]_vars

\* A run answered "/done nope" with the unknown-task reply, went on to mark
\* the default task done, and saved both the watermark and the entry.
C15_Witness ==
    /\ pc = "done"
    /\ Len(updates) = 2
    /\ sent = <<"Unknown task 'nope'. Use /tasks.",
                "Marked done: task1 for " \o target_date \o ".">>
    /\ state_file.last_update_id = updates[2].update_id
    /\ DictGet(state_file.done, "task1") = target_date

\* A /done without key found no default, the registry being empty.
C15_WitnessNoDefault ==
    /\ pc = "loop"
    /\ sent # <<>>
    /\ sent[Len(sent)] = "No default task set. Use /add to create a task first."
    /\ cfg.tasks = <<>>

\* The tasks of the registry, in its order, whose ledger entry is not date.
PendingFor(c, dm, date) ==
    SelectSeq(c.tasks, LAMBDA t : t.key \notin DOMAIN dm \/ dm[t.key] # date)

\* C16: a completed run has sent a reminder exactly when its batch held no
\* /tasks, /help or /status, it sent no command reply, the time read for the
\* reminder is at or after 19:00 or at or before 02:00, and a task of the
\* registry has a ledger entry other than the target date of that time; the
\* reminder is then the run's only message and names those tasks in the order
\* of the registry.
C16_ReminderExactlyWhenDue ==
    pc = "done"
        => LET date == IF AtOrBeforeTwo(clock.time) THEN isoformat(clock.date - 1)
                       ELSE isoformat(clock.date)
               pending == PendingFor(cfg, done_map, date)
               reminded == \E i \in 1..Len(sent) : IsReminder(sent[i])
           IN /\ reminded
                   <=> /\ ~BatchSays("/tasks") /\ ~BatchSays("/help") /\ ~BatchSays("/status")
                       /\ \A i \in 1..Len(sent) : ~IsCommandReply(sent[i])
                       /\ AtOrAfterSeven(clock.time) \/ AtOrBeforeTwo(clock.time)
                       /\ pending # <<>>
              /\ reminded
                   => sent = <<"Reminder for " \o date \o ":\nPending: "
                                \o JoinLines([i \in 1..Len(pending) |-> pending[i].label], ", ")
                                \o "\n\nUse /done <key> (see keys with /tasks)">>

\* A reminder named the seed task, done for an earlier date, and after it the
\* task added later.
C16_Witness ==
    /\ pc = "done"
    /\ "task1" \in DOMAIN done_map
    /\ done_map["task1"] # target_date
    /\ sent = <<"Reminder for " \o target_date
                \o ":\nPending: Task 1, Gym\n\nUse /done <key> (see keys with /tasks)">>

\* C17 as stated: between runs, whether the last run completed or aborted,
\* every key of the ledger in state.json is the key of a task in tasks.json.
C17_LedgerKeysInRegistry ==
    pc = "idle" => DOMAIN state_file.done \subseteq SeqKeys(tasks_file.tasks)

\* C18 as stated: every update the provider has received is eventually
\* processed for the last time: from some run on, the saved lastUpdateId stays
\* at or above its id, so that every later fetch offset (lastUpdateId + 1) is
\* greater than its id.
C18_WatermarkPassesEveryUpdate ==
    \A u \in 1..MaxUpdates :
        [](next_uid > u => <>[](state_file.last_update_id >= u))

\* What the next run would fetch, given the files and the provider as they are.
NextFetch == tg_get_updates(inbox, state_file.last_update_id + 1)

\* C19: a step that aborts main() at the fetch, at a command reply or at the
\* reset reply leaves state.json as the run loaded it, and the next run would
\* fetch what this one asked for; a step that aborts main() at the final send
\* finds state.json already holding the lastUpdateId and the ledger of the run.
C19_AbortKeepsRunState ==
    [][ pc' = "aborted"
          => /\ state_file' = state_file
             /\ pc = "idle" => state_file' = loaded' /\ NextFetch' = NextFetch
             /\ pc = "loop" => state_file' = loaded /\ NextFetch' = updates
             /\ pc = "saved"
                  => state_file' = [last_update_id |-> last_update_id, done |-> done_map]
             /\ pc \in {"idle", "loop", "saved"} ]_vars

\* A run marked the seed task done, raised the watermark by two and aborted at
\* the reply to the second command: state.json is as loaded.
C19_Witness ==
    /\ pc = "aborted"
    /\ pos = 1
    /\ Len(updates) = 2
    /\ sent = <<"Marked done: task1 for " \o target_date \o ".">>
    /\ "task1" \in DOMAIN done_map
    /\ "task1" \notin DOMAIN state_file.done
    /\ last_update_id = loaded.last_update_id + 2
    /\ state_file = loaded

\* A run aborted at the status send, after it saved a new watermark.
C19_WitnessFinalSend ==
    /\ pc = "aborted"
    /\ status_requested
    /\ pos = Len(updates)
    /\ state_file.last_update_id > loaded.last_update_id

\* The window a time belongs to, named by the day D of its 19:00: 19:00 of D
\* through 02:00:00 of D + 1; 0 for a time outside every window.
WindowOf(c) ==
    IF AtOrAfterSeven(c.time) THEN c.date
    ELSE IF AtOrBeforeTwo(c.time) THEN c.date - 1
    ELSE 0

Contains(s, sub) ==
    \E i \in 1..(Len(s) - Len(sub) + 1) : SubSeq(s, i, i + Len(sub) - 1) = sub

\* The message names the task of the registry with key k, by its label.
NamesTask(m, k) ==
    \E i \in 1..Len(cfg.tasks) : cfg.tasks[i].key = k /\ Contains(m, cfg.tasks[i].label)

\* The run in progress, started inside window w, has accepted a /done of k.
AcceptedDone(k, w) ==
    /\ pc = "loop"
    /\ WindowOf(clock) = w
    /\ \E i \in 1..Len(sent) : StartsWith(sent[i], "Marked done: " \o k \o " for ")

\* A run has ended with a reminder whose time is inside window w.
RemindedIn(w) ==
    /\ pc = "done"
    /\ sent # <<>>
    /\ IsReminder(sent[Len(sent)])
    /\ WindowOf(clock) = w

\* C20: a run started inside the window of day D targets D; and, no /reset,
\* /resetall or /remove being processed, once a run started inside a window
\* has accepted /done k, no reminder sent at a time of that window names k.
C20_DoneHoldsForTheWindow ==
    /\ []((pc = "loop" /\ WindowOf(clock) # 0) => target_date = isoformat(WindowOf(clock)))
    /\ \A k \in {"task1", "gym"} : \A w \in FirstDay - 1 .. FirstDay + MaxDays :
         [](AcceptedDone(k, w) => [](RemindedIn(w) => ~NamesTask(sent[Len(sent)], k)))

\* The seed task was marked done for window D in an earlier run; a later run at
\* a time of the same window reminds of the other task alone.
C20_Witness ==
    /\ pc = "done"
    /\ WindowOf(clock) # 0
    /\ "task1" \in DOMAIN loaded.done
    /\ loaded.done["task1"] = isoformat(WindowOf(clock))
    /\ sent = <<"Reminder for " \o isoformat(WindowOf(clock))
                \o ":\nPending: Gym\n\nUse /done <key> (see keys with /tasks)">>

====
